---- MODULE Spec2Model ----
(***************************************************************************)
(* Domain checker (src/domain-checker.py): the two probes (_check_whois,   *)
(* _check_dns_resolution), the verdict computed by                         *)
(* check_domain_availability, and the tools check_domain and               *)
(* check_multiple_domains, run by a single-threaded event loop that        *)
(* offloads the blocking provider calls to the default executor.           *)
(***************************************************************************)
EXTENDS Integers, Sequences, FiniteSets, TLC

(* ------------------------------ bounds -------------------------------- *)
\* longest domain list passed to check_multiple_domains
MaxDomains == 2
\* worker threads of the event loop's default executor
Workers == 1
\* tool calls served one after the other
MaxCalls == 2

Domains == {"a.com", "b.org"}

(* --------------------------- Python values ---------------------------- *)
None == "NoneType"
True == "True"
False == "False"
EmptyDict == << >>

\* str() of the values the code formats
str(x) == IF x = None THEN "None" ELSE x

RawExcerptLen == 500
Min(a, b) == IF a <= b THEN a ELSE b
\* text[:n] of a text known by its content tag and its length
Slice(text, n) == [text |-> text.text, len |-> Min(text.len, n)]

(* ------------------------- provider behaviours ------------------------ *)
\* what whois.whois(domain) hands back: None, a record, or a raised error
WhoisRecords ==
    { [status |-> s, registrar |-> r,
       creation_date |-> IF s = None /\ r = None THEN None ELSE "1995-08-14 04:00:00",
       raw |-> [text |-> "whois text", len |-> 600]] :
         s \in {None, "clientTransferProhibited"},
         r \in {None, "Example Registrar, Inc."} }
    \cup { [status |-> None, registrar |-> None, creation_date |-> None,
            raw |-> [text |-> "whois text", len |-> 120]] }

WhoisOutcomes ==
    { [kind |-> "None"] }
    \cup { [kind |-> "record", data |-> rec] : rec \in WhoisRecords }
    \cup { [kind |-> "raise", exc |-> "PywhoisError", text |-> "No match for domain"],
           [kind |-> "raise", exc |-> "Exception", text |-> "Connection reset by peer"] }

\* what self.dns_resolver.resolve(domain, 'A') does: answers, or a raised error
ResolverOutcomes ==
    { [kind |-> "return", answers |-> <<"93.184.216.34">>],
      [kind |-> "return", answers |-> << >>],
      [kind |-> "raise", exc |-> "NXDOMAIN", text |-> "The DNS query name does not exist"],
      [kind |-> "raise", exc |-> "Exception", text |-> "The DNS operation timed out"] }

\* an unexpected failure striking the evaluation outside the provider calls:
\* none, one raised inside the try block (caught at line 103), or one that
\* escapes the coroutine (raised before the try, or in the handler itself)
NoFault == "no fault"
Faults == {NoFault, "caught", "escapes"}
UnexpectedText == "unexpected failure"
NotCalled == [kind |-> "not called"]

(* ------------------------------- state -------------------------------- *)
VARIABLES
    call,          \* the tool being served: "idle", "single" or "batch"
    domains,       \* the argument of the tool call (a list of domains)
    tasks,         \* one check_domain_availability coroutine per domain of the
                   \* call being served (kept, finished, until the next call)
    queue,         \* work items waiting in the default executor
    running,       \* work items executing on worker threads
    response,      \* what the tool call handed back to its caller
    dns_resolver,  \* DomainChecker.dns_resolver configuration
    ncalls         \* tool calls accepted so far

vars == <<call, domains, tasks, queue, running, response, dns_resolver, ncalls>>

(* ------------------------------ probes -------------------------------- *)
\* variant: every error of the provider is read as the parser's "no match"
_check_whois_any_error_free(out) ==
    IF out.kind = "None"
    THEN [available |-> True, reason |-> <<"No WHOIS data found">>]
    ELSE IF out.kind = "record"
    THEN IF out.data.status # None
         THEN [available |-> False,
               reason |-> <<"Domain has active status">>,
               status |-> out.data.status,
               registrar |-> out.data.registrar,
               creation_date |-> str(out.data.creation_date)]
         ELSE IF out.data.registrar # None
         THEN [available |-> False,
               reason |-> <<"Domain has registrar">>,
               registrar |-> out.data.registrar]
         ELSE [available |-> None,
               reason |-> <<"WHOIS data exists but unclear status">>,
               raw_data |-> Slice(out.data.raw, RawExcerptLen)]
    ELSE [available |-> True, reason |-> <<"WHOIS parser error: ", str(out.text)>>]

\* variant: the registrar is looked at before the status
_check_whois_registrar_first(out) ==
    IF out.kind = "None"
    THEN [available |-> True, reason |-> <<"No WHOIS data found">>]
    ELSE IF out.kind = "record"
    THEN IF out.data.registrar # None
         THEN [available |-> False,
               reason |-> <<"Domain has registrar">>,
               registrar |-> out.data.registrar]
         ELSE IF out.data.status # None
         THEN [available |-> False,
               reason |-> <<"Domain has active status">>,
               status |-> out.data.status,
               registrar |-> out.data.registrar,
               creation_date |-> str(out.data.creation_date)]
         ELSE [available |-> None,
               reason |-> <<"WHOIS data exists but unclear status">>,
               raw_data |-> Slice(out.data.raw, RawExcerptLen)]
    ELSE IF out.exc = "PywhoisError"
    THEN [available |-> True, reason |-> <<"WHOIS parser error: ", str(out.text)>>]
    ELSE [available |-> None, reason |-> <<"WHOIS lookup failed: ", str(out.text)>>]

\* variant: the parser's error is handled like every other failure
_check_whois_parser_error_fails(out) ==
    IF out.kind = "None"
    THEN [available |-> True, reason |-> <<"No WHOIS data found">>]
    ELSE IF out.kind = "record"
    THEN IF out.data.status # None
         THEN [available |-> False,
               reason |-> <<"Domain has active status">>,
               status |-> out.data.status,
               registrar |-> out.data.registrar,
               creation_date |-> str(out.data.creation_date)]
         ELSE IF out.data.registrar # None
         THEN [available |-> False,
               reason |-> <<"Domain has registrar">>,
               registrar |-> out.data.registrar]
         ELSE [available |-> None,
               reason |-> <<"WHOIS data exists but unclear status">>,
               raw_data |-> Slice(out.data.raw, RawExcerptLen)]
    ELSE [available |-> None, reason |-> <<"WHOIS lookup failed: ", str(out.text)>>]

\* DomainChecker._check_whois, from the provider's behaviour to the probe's dict
_check_whois(out) ==
    IF out.kind = "None"
    THEN [available |-> True, reason |-> <<"No WHOIS data found">>]
    ELSE IF out.kind = "record"
    THEN IF out.data.status # None
         THEN [available |-> False,
               reason |-> <<"Domain has active status">>,
               status |-> out.data.status,
               registrar |-> out.data.registrar,
               creation_date |-> str(out.data.creation_date)]
         ELSE IF out.data.registrar # None
         THEN [available |-> False,
               reason |-> <<"Domain has registrar">>,
               registrar |-> out.data.registrar]
         ELSE [available |-> None,
               reason |-> <<"WHOIS data exists but unclear status">>,
               raw_data |-> Slice(out.data.raw, RawExcerptLen)]
    ELSE IF out.exc = "PywhoisError"
    THEN [available |-> True, reason |-> <<"WHOIS parser error: ", str(out.text)>>]
    ELSE [available |-> None, reason |-> <<"WHOIS lookup failed: ", str(out.text)>>]

\* variant: name-not-found is not told apart from the other errors
resolve_dns_nxdomain_raises(out) ==
    IF out.kind = "return"
    THEN [kind |-> "return", t |-> "list", v |-> out.answers]
    ELSE out

\* the helper run on the worker thread: a list of addresses, None, or a raise
resolve_dns(out) ==
    IF out.kind = "return"
    THEN [kind |-> "return", t |-> "list", v |-> out.answers]
    ELSE IF out.exc = "NXDOMAIN"
    THEN [kind |-> "return", t |-> "None", v |-> << >>]
    ELSE out

\* variant: "is not None" instead of the truth value
Truthy_not_none(a) == a.t = "list"

\* Python truth value of what resolve_dns returned
Truthy(a) == a.t = "list" /\ a.v # << >>

\* variant: the failure branch gives no reason
_check_dns_resolution_silent(out) ==
    LET a_records == resolve_dns(out) IN
    IF a_records.kind = "raise"
    THEN [resolvable |-> None]
    ELSE IF Truthy(a_records)
    THEN [resolvable |-> True,
          a_records |-> a_records.v,
          reason |-> <<"Domain resolves to IP addresses">>]
    ELSE [resolvable |-> False, reason |-> <<"Domain does not resolve (NXDOMAIN)">>]

\* variant: no handler around the lookup, the resolver's error goes through
_check_dns_resolution_reraising(out) ==
    LET a_records == resolve_dns(out) IN
    IF a_records.kind = "raise"
    THEN [raised |-> a_records.text]
    ELSE IF Truthy(a_records)
    THEN [resolvable |-> True,
          a_records |-> a_records.v,
          reason |-> <<"Domain resolves to IP addresses">>]
    ELSE [resolvable |-> False, reason |-> <<"Domain does not resolve (NXDOMAIN)">>]

\* DomainChecker._check_dns_resolution
_check_dns_resolution(out) ==
    LET a_records == resolve_dns(out) IN
    IF a_records.kind = "raise"
    THEN [resolvable |-> None, reason |-> <<"DNS lookup failed: ", str(a_records.text)>>]
    ELSE IF Truthy(a_records)
    THEN [resolvable |-> True,
          a_records |-> a_records.v,
          reason |-> <<"Domain resolves to IP addresses">>]
    ELSE [resolvable |-> False, reason |-> <<"Domain does not resolve (NXDOMAIN)">>]

(* ----------------------- single-domain evaluation --------------------- *)
\* the result structure of lines 74-81
InitialResults(domain) ==
    [domain |-> domain, available |-> None, whois_available |-> None,
     dns_resolvable |-> None, error |-> None, details |-> EmptyDict]

\* variant: a resolution that is not known to succeed counts as free
available_unless_resolving(whois_available, dns_resolvable) ==
    IF whois_available = True /\ dns_resolvable # True THEN True
    ELSE IF whois_available = False THEN False
    ELSE None

\* lines 96-101: the overall availability from the two signals
available(whois_available, dns_resolvable) ==
    IF whois_available = True /\ dns_resolvable = False THEN True
    ELSE IF whois_available = False THEN False
    ELSE None

\* lines 86-87
WithWhois(results, whois_result) ==
    [results EXCEPT !.whois_available = whois_result.available,
                    !.details = ("whois" :> whois_result)]

\* lines 91-101
WithDns(results, dns_result) ==
    [results EXCEPT !.dns_resolvable = dns_result.resolvable,
                    !.details = results.details @@ ("dns" :> dns_result),
                    !.available = available(results.whois_available, dns_result.resolvable)]

\* variant: the handler keeps no trace of the failure
Caught_silent(results, text) == results

\* lines 103-104: the handler of the try block
Caught(results, text) == [results EXCEPT !.error = str(text)]

\* variant: one result structure shared by all evaluations of the engine
NewTask_shared(domain) ==
    [pc |-> "created", domain |-> domain,
     results |-> IF tasks # << >> /\ tasks[1].pc = "returned"
                 THEN [tasks[1].results EXCEPT !.domain = domain]
                 ELSE InitialResults(domain),
     exc |-> None, whois_ret |-> NotCalled, dns_ret |-> NotCalled, fault |-> NoFault]

\* the coroutine object of line 242 (and of line 205), not yet started
NewTask(domain) ==
    [pc |-> "created", domain |-> domain, results |-> InitialResults(domain),
     exc |-> None, whois_ret |-> NotCalled, dns_ret |-> NotCalled, fault |-> NoFault]

Finished(t) == t.pc \in {"returned", "raised"}

\* variant: no handler around the evaluation, every failure propagates
Struck_unhandled(t, results, fault) ==
    [t EXCEPT !.pc = "raised", !.exc = UnexpectedText, !.fault = fault]

\* how a coroutine leaves the try block when a fault strikes (lines 103-107)
Struck(t, results, fault) ==
    IF fault = "caught"
    THEN [t EXCEPT !.pc = "returned", !.results = Caught(results, UnexpectedText),
                   !.fault = fault]
    ELSE [t EXCEPT !.pc = "raised", !.exc = UnexpectedText, !.fault = fault]

\* a probe that let an exception through instead of returning its dict
ProbeRaised(probe) == "raised" \in DOMAIN probe

\* an exception thrown by an awaited probe reaches the handler of line 103
Thrown(t, text, fault) ==
    IF fault = "escapes"
    THEN Struck(t, t.results, fault)
    ELSE [t EXCEPT !.pc = "returned", !.results = Caught(t.results, text),
                   !.fault = fault]

WorkItem(i, fn) == [task |-> i, fn |-> fn]

(* -------------------------------- tools ------------------------------- *)
NoResponse == [kind |-> "none"]

\* lines 208-213: the status line of check_domain
status(result) ==
    IF result.available = True THEN "LIKELY AVAILABLE"
    ELSE IF result.available = False THEN "NOT AVAILABLE"
    ELSE "UNCLEAR"

\* line 218: Python truth value first, then the identity test
whois_check(result) ==
    IF result.whois_available = True THEN "Available"
    ELSE IF result.whois_available = False THEN "Registered"
    ELSE "Unclear"

\* line 219
dns_resolution(result) ==
    IF result.dns_resolvable = False THEN "Not resolving"
    ELSE IF result.dns_resolvable = True THEN "Resolving"
    ELSE "Error"

\* what awaiting one coroutine gives: its return value, or its exception
Outcome(t) ==
    IF t.pc = "raised"
    THEN [kind |-> "exception", text |-> t.exc]
    ELSE [kind |-> "result", value |-> t.results]

\* variant: gather without return_exceptions, the first exception propagates
gather_propagating(ts) ==
    IF \E i \in 1..Len(ts) : ts[i].pc = "raised"
    THEN [kind |-> "raise",
          text |-> ts[CHOOSE i \in 1..Len(ts) : ts[i].pc = "raised"].exc]
    ELSE [kind |-> "return", results |-> [i \in 1..Len(ts) |-> Outcome(ts[i])]]

\* asyncio.gather(*tasks, return_exceptions=True), line 243: one entry per
\* task, in the order of the tasks, exceptions as entries
gather(ts) ==
    [kind |-> "return", results |-> [i \in 1..Len(ts) |-> Outcome(ts[i])]]

\* variant: entries that are exceptions are dropped instead of replaced
processed_results_dropping(ds, results) ==
    LET kept == SelectSeq(results, LAMBDA r : r.kind # "exception")
    IN [i \in 1..Len(kept) |-> kept[i].value]

\* variant: the placeholder names the first domain of the list
processed_results_first_domain(ds, results) ==
    [i \in 1..Len(results) |->
        IF results[i].kind = "exception"
        THEN [domain |-> ds[1], available |-> None, error |-> str(results[i].text)]
        ELSE results[i].value]

\* lines 246-255
processed_results(ds, results) ==
    [i \in 1..Len(results) |->
        IF results[i].kind = "exception"
        THEN [domain |-> ds[i], available |-> None, error |-> str(results[i].text)]
        ELSE results[i].value]

\* variant: the table tests the truth value of the verdict
table_status_falsy(result) ==
    IF result.available = True THEN "LIKELY AVAILABLE"
    ELSE "NOT AVAILABLE"

\* lines 260-265: the status column of the table of check_multiple_domains
table_status(result) ==
    IF result.available = True THEN "LIKELY AVAILABLE"
    ELSE IF result.available = False THEN "NOT AVAILABLE"
    ELSE "UNCLEAR"

\* lines 257-271: the table and the detailed results of the batch tool
BatchReport(processed) ==
    [kind |-> "return", what |-> "results",
     table |-> [i \in 1..Len(processed) |->
                   <<processed[i].domain, table_status(processed[i])>>],
     results |-> processed]

\* lines 205-228: the report of the single tool
SingleReport(domain, result) ==
    [kind |-> "return", what |-> "report",
     domain |-> domain, status |-> status(result),
     whois_check |-> whois_check(result),
     dns_resolution |-> dns_resolution(result),
     details |-> result.details,
     error |-> result.error,
     result |-> result]

EmptyListMessage == [kind |-> "return", what |-> "error message",
                     text |-> "Error: Domain list is required"]

Raised(tool, text) == [kind |-> "raise", tool |-> tool, text |-> text]

DomainLists == UNION { [1..n -> Domains] : n \in 0..MaxDomains }

(* ------------------------------ actions ------------------------------- *)
Init ==
    /\ call = "idle"
    /\ domains = << >>
    /\ tasks = << >>
    /\ queue = << >>
    /\ running = {}
    /\ response = NoResponse
    /\ dns_resolver = [timeout |-> 5, lifetime |-> 10]
    /\ ncalls = 0

\* a client calls the tool check_domain (line 205, up to the first await)
check_domain(domain) ==
    /\ call = "idle"
    /\ ncalls < MaxCalls
    /\ call' = "single"
    /\ domains' = <<domain>>
    /\ tasks' = <<NewTask(domain)>>
    /\ response' = NoResponse
    /\ ncalls' = ncalls + 1
    /\ UNCHANGED <<queue, running, dns_resolver>>

\* variant: the list is not tested for emptiness
check_multiple_domains_unchecked(ds) ==
    /\ call = "idle"
    /\ ncalls < MaxCalls
    /\ ncalls' = ncalls + 1
    /\ domains' = ds
    /\ call' = "batch"
    /\ tasks' = [i \in 1..Len(ds) |-> NewTask(ds[i])]
    /\ response' = NoResponse
    /\ UNCHANGED <<queue, running, dns_resolver>>

\* a client calls the tool check_multiple_domains (lines 237-243)
check_multiple_domains(ds) ==
    /\ call = "idle"
    /\ ncalls < MaxCalls
    /\ ncalls' = ncalls + 1
    /\ domains' = ds
    /\ IF ds = << >>
       THEN /\ response' = EmptyListMessage
            /\ tasks' = << >>
            /\ UNCHANGED call
       ELSE /\ call' = "batch"
            /\ tasks' = [i \in 1..Len(ds) |-> NewTask(ds[i])]
            /\ response' = NoResponse
    /\ UNCHANGED <<queue, running, dns_resolver>>

\* variant: both probes are launched before either is awaited
Start_both_probes(i, fault) ==
    /\ i \in 1..Len(tasks)
    /\ tasks[i].pc = "created"
    /\ \A j \in 1..(i - 1) : tasks[j].pc # "created"
    /\ IF fault = NoFault
       THEN /\ tasks' = [tasks EXCEPT ![i].pc = "whois"]
            /\ queue' = queue \o <<WorkItem(i, "whois"), WorkItem(i, "resolve_dns")>>
       ELSE /\ tasks' = [tasks EXCEPT ![i] = Struck(@, @.results, fault)]
            /\ UNCHANGED queue
    /\ UNCHANGED <<call, domains, running, response, dns_resolver, ncalls>>

\* the event loop runs a coroutine up to its first await (lines 74-85, 116-118):
\* coroutines start in the order in which they were scheduled
Start(i, fault) ==
    /\ i \in 1..Len(tasks)
    /\ tasks[i].pc = "created"
    /\ \A j \in 1..(i - 1) : tasks[j].pc # "created"
    /\ IF fault = NoFault
       THEN /\ tasks' = [tasks EXCEPT ![i].pc = "whois"]
            /\ queue' = Append(queue, WorkItem(i, "whois"))
       ELSE /\ tasks' = [tasks EXCEPT ![i] = Struck(@, @.results, fault)]
            /\ UNCHANGED queue
    /\ UNCHANGED <<call, domains, running, response, dns_resolver, ncalls>>

\* variant: one worker thread less than the pool is meant to have
WorkerPick_one_less ==
    /\ queue # << >>
    /\ Cardinality(running) < Workers - 1
    /\ running' = running \cup {Head(queue)}
    /\ queue' = Tail(queue)
    /\ UNCHANGED <<call, domains, tasks, response, dns_resolver, ncalls>>

\* a free worker thread of the default executor takes the oldest work item
WorkerPick ==
    /\ queue # << >>
    /\ Cardinality(running) < Workers
    /\ running' = running \cup {Head(queue)}
    /\ queue' = Tail(queue)
    /\ UNCHANGED <<call, domains, tasks, response, dns_resolver, ncalls>>

\* variant: the worker thread of a finished call is not given back to the pool
WhoisReturn_worker_lost(i, out, fault) ==
    /\ WorkItem(i, "whois") \in running
    /\ running' = (running \ {WorkItem(i, "whois")}) \cup {WorkItem(i, "lost")}
    /\ LET t == [tasks[i] EXCEPT !.whois_ret = out]
           whois_result == _check_whois(out)
       IN IF fault = NoFault
          THEN /\ tasks' = [tasks EXCEPT ![i] =
                      [t EXCEPT !.pc = "dns",
                                !.results = WithWhois(t.results, whois_result)]]
               /\ queue' = Append(queue, WorkItem(i, "resolve_dns"))
          ELSE /\ tasks' = [tasks EXCEPT ![i] =
                      Struck(t, WithWhois(t.results, whois_result), fault)]
               /\ UNCHANGED queue
    /\ UNCHANGED <<call, domains, response, dns_resolver, ncalls>>

\* variant: a registered domain is answered without the resolution probe
WhoisReturn_early_exit(i, out, fault) ==
    /\ WorkItem(i, "whois") \in running
    /\ running' = running \ {WorkItem(i, "whois")}
    /\ LET t == [tasks[i] EXCEPT !.whois_ret = out]
           whois_result == _check_whois(out)
       IN IF fault # NoFault
          THEN /\ tasks' = [tasks EXCEPT ![i] =
                      Struck(t, WithWhois(t.results, whois_result), fault)]
               /\ UNCHANGED queue
          ELSE IF whois_result.available = False
          THEN /\ tasks' = [tasks EXCEPT ![i] =
                      [t EXCEPT !.pc = "returned",
                                !.results = [WithWhois(t.results, whois_result)
                                                EXCEPT !.available = False]]]
               /\ UNCHANGED queue
          ELSE /\ tasks' = [tasks EXCEPT ![i] =
                      [t EXCEPT !.pc = "dns",
                                !.results = WithWhois(t.results, whois_result)]]
               /\ queue' = Append(queue, WorkItem(i, "resolve_dns"))
    /\ UNCHANGED <<call, domains, response, dns_resolver, ncalls>>

\* whois.whois returns or raises on its worker thread and the coroutine goes
\* on to its next await (lines 118-148, 86-90, 157-170)
WhoisReturn(i, out, fault) ==
    /\ WorkItem(i, "whois") \in running
    /\ running' = running \ {WorkItem(i, "whois")}
    /\ LET t == [tasks[i] EXCEPT !.whois_ret = out]
           whois_result == _check_whois(out)
       IN IF ProbeRaised(whois_result)
          THEN /\ tasks' = [tasks EXCEPT ![i] = Thrown(t, whois_result.raised, fault)]
               /\ UNCHANGED queue
          ELSE IF fault = NoFault
          THEN /\ tasks' = [tasks EXCEPT ![i] =
                      [t EXCEPT !.pc = "dns",
                                !.results = WithWhois(t.results, whois_result)]]
               /\ queue' = Append(queue, WorkItem(i, "resolve_dns"))
          ELSE /\ tasks' = [tasks EXCEPT ![i] =
                      Struck(t, WithWhois(t.results, whois_result), fault)]
               /\ UNCHANGED queue
    /\ UNCHANGED <<call, domains, response, dns_resolver, ncalls>>

\* variant: the lookup shortens the shared resolver's timeout after a failure
DnsReturn_retuning(i, out, fault) ==
    /\ WorkItem(i, "resolve_dns") \in running
    /\ running' = running \ {WorkItem(i, "resolve_dns")}
    /\ LET t == [tasks[i] EXCEPT !.dns_ret = out]
           dns_result == _check_dns_resolution(out)
       IN IF fault = NoFault
          THEN tasks' = [tasks EXCEPT ![i] =
                   [t EXCEPT !.pc = "returned", !.results = WithDns(t.results, dns_result)]]
          ELSE tasks' = [tasks EXCEPT ![i] =
                   Struck(t, [t.results EXCEPT !.dns_resolvable = dns_result.resolvable,
                                               !.details = @ @@ ("dns" :> dns_result)],
                          fault)]
    /\ dns_resolver' = IF out.kind = "raise"
                       THEN [dns_resolver EXCEPT !.timeout = 1]
                       ELSE dns_resolver
    /\ UNCHANGED <<call, domains, queue, response, ncalls>>

\* variant: the verdict is written before the statement that fails
DnsReturn_verdict_first(i, out, fault) ==
    /\ WorkItem(i, "resolve_dns") \in running
    /\ running' = running \ {WorkItem(i, "resolve_dns")}
    /\ LET t == [tasks[i] EXCEPT !.dns_ret = out]
           dns_result == _check_dns_resolution(out)
       IN IF fault = NoFault
          THEN tasks' = [tasks EXCEPT ![i] =
                   [t EXCEPT !.pc = "returned", !.results = WithDns(t.results, dns_result)]]
          ELSE tasks' = [tasks EXCEPT ![i] =
                   Struck(t, WithDns(t.results, dns_result), fault)]
    /\ UNCHANGED <<call, domains, queue, response, dns_resolver, ncalls>>

\* resolve_dns returns or raises on its worker thread and the coroutine runs
\* to its end (lines 159-188, 91-107)
DnsReturn(i, out, fault) ==
    /\ WorkItem(i, "resolve_dns") \in running
    /\ running' = running \ {WorkItem(i, "resolve_dns")}
    /\ LET t == [tasks[i] EXCEPT !.dns_ret = out]
           dns_result == _check_dns_resolution(out)
       IN IF ProbeRaised(dns_result)
          THEN tasks' = [tasks EXCEPT ![i] = Thrown(t, dns_result.raised, fault)]
          ELSE IF fault = NoFault
          THEN tasks' = [tasks EXCEPT ![i] =
                   [t EXCEPT !.pc = "returned", !.results = WithDns(t.results, dns_result)]]
          ELSE tasks' = [tasks EXCEPT ![i] =
                   Struck(t, [t.results EXCEPT !.dns_resolvable = dns_result.resolvable,
                                               !.details = @ @@ ("dns" :> dns_result)],
                          fault)]
    /\ UNCHANGED <<call, domains, queue, response, dns_resolver, ncalls>>

\* check_domain resumes with the result of its evaluation (lines 205-228)
CheckDomainReturn ==
    /\ call = "single"
    /\ Finished(tasks[1])
    /\ response' = IF Outcome(tasks[1]).kind = "exception"
                   THEN Raised("check_domain", tasks[1].exc)
                   ELSE SingleReport(domains[1], tasks[1].results)
    /\ call' = "idle"
    /\ UNCHANGED <<domains, tasks, queue, running, dns_resolver, ncalls>>

\* check_multiple_domains resumes when gather is done (lines 243-271)
CheckMultipleDomainsReturn ==
    /\ call = "batch"
    /\ \A i \in 1..Len(tasks) : Finished(tasks[i])
    /\ LET results == gather(tasks)
       IN response' = IF results.kind = "raise"
                      THEN Raised("check_multiple_domains", results.text)
                      ELSE BatchReport(processed_results(domains, results.results))
    /\ call' = "idle"
    /\ UNCHANGED <<domains, tasks, queue, running, dns_resolver, ncalls>>

Next ==
    \/ \E d \in Domains : check_domain(d)
    \/ \E ds \in DomainLists : check_multiple_domains(ds)
    \/ \E i \in 1..MaxDomains, f \in Faults : Start(i, f)
    \/ WorkerPick
    \/ \E i \in 1..MaxDomains, out \in WhoisOutcomes, f \in Faults : WhoisReturn(i, out, f)
    \/ \E i \in 1..MaxDomains, out \in ResolverOutcomes, f \in Faults : DnsReturn(i, out, f)
    \/ CheckDomainReturn
    \/ CheckMultipleDomainsReturn

Spec == Init /\ [][Next]_vars

(* ============================ properties ============================== *)
N == Len(domains)
Positions == 1..Len(tasks)
BatchReturned == response.kind = "return" /\ response.what = "results"
SingleReturned == response.kind = "return" /\ response.what = "report"
\* the evaluation at position i ran both probes and met no unexpected failure
Undisturbed(i) == tasks[i].pc = "returned" /\ tasks[i].fault = NoFault

\* C1: the verdict is a function of the pair (registration outcome,
\* resolution outcome): Available exactly for (Positive, Negative),
\* NotAvailable exactly for (Negative, any), Unclear for every other pair.
C1_VerdictTable ==
    \A i \in Positions :
        Undisturbed(i) =>
            LET r == tasks[i].results
                reg == r.details.whois.available
                res == r.details.dns.resolvable
            IN /\ reg \in {True, False, None} /\ res \in {True, False, None}
               /\ r.available \in {True, False, None}
               /\ (r.available = True) <=> (reg = True /\ res = False)
               /\ (r.available = False) <=> (reg = False)
               /\ (r.available = None) <=> (reg = None \/ (reg = True /\ res # False))

C1_Witness ==
    /\ Len(tasks) = 2 /\ Undisturbed(1) /\ Undisturbed(2)
    /\ tasks[1].results.details.whois.available = True
    /\ tasks[1].results.details.dns.resolvable = False
    /\ tasks[1].results.available = True
    /\ tasks[2].results.details.whois.available = False
    /\ tasks[2].results.details.dns.resolvable = None
    /\ tasks[2].results.available = False

C3_EmptyListRaises ==
    (ncalls > 0 /\ domains = << >>) => response.kind = "raise"

\* C3 (amended): a batch called with an empty list returns the error message
\* without raising and launches no evaluation and no provider call; it is the
\* only case in which the batch tool returns an error message, and the batch
\* tool never raises.
C3_EmptyListMessage ==
    /\ (ncalls > 0 /\ domains = << >>) =>
          /\ response = EmptyListMessage
          /\ call = "idle" /\ tasks = << >> /\ queue = << >> /\ running = {}
    /\ (response.kind = "return" /\ response.what = "error message") => domains = << >>
    /\ response.kind = "raise" => response.tool = "check_domain"
    /\ call = "batch" => domains # << >>

C3_Witness ==
    ncalls = 2 /\ domains = << >> /\ response = EmptyListMessage

\* C4: whatever the two providers do, an evaluation ends by returning one
\* result record with verdict True, False or None; it ends by raising only
\* when a failure escapes the try block and its handler.
C4_NeverRaises ==
    \A i \in Positions :
        /\ tasks[i].pc = "raised" => tasks[i].fault = "escapes"
        /\ tasks[i].pc = "returned" =>
              /\ tasks[i].results.available \in {True, False, None}
              /\ tasks[i].results.domain = domains[i]
        /\ tasks[i].dns_ret # NotCalled /\ tasks[i].fault # "escapes" =>
              tasks[i].pc = "returned"

C4_Witness ==
    \E i \in Positions :
        /\ tasks[i].pc = "returned" /\ tasks[i].fault = NoFault
        /\ tasks[i].whois_ret.kind = "raise" /\ tasks[i].whois_ret.exc = "Exception"
        /\ tasks[i].dns_ret.kind = "raise" /\ tasks[i].dns_ret.exc = "Exception"
        /\ tasks[i].results.available = None

\* what one evaluation hands back for a domain and the two provider behaviours
EvaluatedAlone(domain, whois_out, dns_out) ==
    WithDns(WithWhois(InitialResults(domain), _check_whois(whois_out)),
            _check_dns_resolution(dns_out))

\* C5: in a batch, a failed evaluation never makes the batch fail and never
\* changes the result of another domain: the result of every evaluation that
\* did not fail itself is the one its own domain and its own two provider
\* responses determine.
C5_Isolation ==
    /\ response.kind = "raise" => response.tool # "check_multiple_domains"
    /\ BatchReturned =>
          \A i \in 1..N :
              Undisturbed(i) =>
                  response.results[i] =
                      EvaluatedAlone(domains[i], tasks[i].whois_ret, tasks[i].dns_ret)

C5_Witness ==
    /\ BatchReturned /\ N = 2
    /\ tasks[1].pc = "raised"
    /\ Undisturbed(2)
    /\ response.results[2].available = False
    /\ response.results[2].error = None

\* the registration provider call of position i raised an error other than
\* the parser's no-such-record error, and nothing else failed there
WhoisFailedAt(i) ==
    /\ Undisturbed(i)
    /\ tasks[i].whois_ret.kind = "raise" /\ tasks[i].whois_ret.exc = "Exception"

\* C6 (as stated): in a batch, the result of a domain whose registration
\* provider call raised an unexpected error has verdict Unclear and a
\* populated top-level error.
C6_ErrorPopulated ==
    BatchReturned =>
        \A i \in 1..N :
            WhoisFailedAt(i) =>
                /\ response.results[i].available = None
                /\ response.results[i].error # None

\* C6 (amended): that result has verdict Unclear, an empty top-level error,
\* and an Indeterminate registration outcome whose reason carries the text of
\* the provider's error.
C6_ErrorInReason ==
    BatchReturned =>
        \A i \in 1..N :
            WhoisFailedAt(i) =>
                LET r == response.results[i] IN
                /\ r.available = None
                /\ r.error = None
                /\ r.whois_available = None
                /\ r.details.whois.available = None
                /\ \E k \in DOMAIN r.details.whois.reason :
                      r.details.whois.reason[k] = tasks[i].whois_ret.text

C6_Witness ==
    /\ BatchReturned /\ N = 2
    /\ WhoisFailedAt(2)
    /\ tasks[2].dns_ret.kind = "raise" /\ tasks[2].dns_ret.exc = "NXDOMAIN"
    /\ Undisturbed(1) /\ response.results[1].available = True

InFlight(i, fn) == WorkItem(i, fn) \in running \/ \E k \in 1..Len(queue) : queue[k] = WorkItem(i, fn)
Issued(i, fn) == InFlight(i, fn) \/ (fn = "resolve_dns" /\ tasks[i].dns_ret # NotCalled)

\* C7 (as stated): the two probes of a domain are launched together, so
\* while the registration call of a domain has not returned its resolution
\* call has been issued too.
C7_ProbesTogether ==
    \A i \in Positions : InFlight(i, "whois") => Issued(i, "resolve_dns")

\* C7 (amended): the two probes of a domain run one after the other: the
\* resolution call is issued only once the registration call has returned,
\* and the two provider calls of one domain are never in flight together.
C7_ProbesInSequence ==
    \A i \in Positions :
        /\ ~(InFlight(i, "whois") /\ InFlight(i, "resolve_dns"))
        /\ Issued(i, "resolve_dns") => tasks[i].whois_ret # NotCalled
        /\ InFlight(i, "whois") => tasks[i].pc = "whois"
        /\ InFlight(i, "resolve_dns") => tasks[i].pc = "dns"

C7_Witness ==
    \E i \in Positions :
        /\ WorkItem(i, "resolve_dns") \in running
        /\ tasks[i].whois_ret # NotCalled
        /\ tasks[i].results.whois_available = False

NoAddress(out) ==
    \/ out.kind = "return" /\ out.answers = << >>
    \/ out.kind = "raise" /\ out.exc = "NXDOMAIN"

\* C9: when the registration provider returns no record and the resolver
\* returns no A records, the verdict is Available.
C9_FreeAndUnresolved ==
    \A i \in Positions :
        (Undisturbed(i) /\ tasks[i].whois_ret.kind = "None" /\ NoAddress(tasks[i].dns_ret))
            => /\ tasks[i].results.available = True
               /\ tasks[i].results.whois_available = True
               /\ tasks[i].results.dns_resolvable = False

C9_Witness ==
    /\ SingleReturned
    /\ Undisturbed(1)
    /\ tasks[1].whois_ret.kind = "None"
    /\ tasks[1].dns_ret.kind = "return" /\ tasks[1].dns_ret.answers = << >>
    /\ response.status = "LIKELY AVAILABLE"

\* the result records handed to the caller by the last tool call
Delivered ==
    IF BatchReturned THEN {response.results[i] : i \in 1..Len(response.results)}
    ELSE IF SingleReturned THEN {response.result}
    ELSE {}

HasVerdict(r) == "available" \in DOMAIN r /\ r.available \in {True, False, None}
\* the probe's entry k of the details is there and gives a reason
HasReason(r, k) ==
    /\ "details" \in DOMAIN r
    /\ k \in DOMAIN r.details
    /\ "reason" \in DOMAIN r.details[k]
    /\ r.details[k].reason # << >>

\* C10 (as stated): every result handed back carries a verdict and a reason
\* explaining the evidence.
C10_VerdictAndReason ==
    \A r \in Delivered : HasVerdict(r) /\ \E k \in {"whois", "dns"} : HasReason(r, k)

\* C10 (amended): every result handed back carries a verdict; it carries a
\* reason of each probe when both probes completed, and otherwise (an
\* unexpected failure, a batch placeholder) the text of the failure in its
\* top-level error and verdict Unclear, with the reasons of the probes that
\* had completed, none in a placeholder.
C10_VerdictAndReasonOrError ==
    \A r \in Delivered :
        /\ HasVerdict(r)
        /\ r.error = None => HasReason(r, "whois") /\ HasReason(r, "dns")
        /\ r.error # None =>
              /\ r.error = UnexpectedText
              /\ r.available = None
              /\ "details" \in DOMAIN r =>
                    \A k \in DOMAIN r.details : HasReason(r, k)

C10_Witness ==
    /\ BatchReturned /\ N = 2
    /\ "details" \notin DOMAIN response.results[1]
    /\ response.results[1].error # None
    /\ response.results[2].error = None
    /\ tasks[2].dns_ret.kind = "raise" /\ tasks[2].dns_ret.exc = "Exception"
    /\ HasReason(response.results[2], "dns")

\* a text is part of a reason
Includes(reason, text) == \E k \in DOMAIN reason : reason[k] = text
\* the details of a result hold, under key k, a probe outcome with a reason
IsProbeOutcome(r, k, field) ==
    /\ k \in DOMAIN r.details
    /\ field \in DOMAIN r.details[k]
    /\ r.details[k][field] \in {True, False, None}
    /\ "reason" \in DOMAIN r.details[k]
    /\ r.details[k].reason # << >>
\* a provider failure that is neither no-such-record nor name-not-found
OtherFailure(out) ==
    out.kind = "raise" /\ out.exc \notin {"PywhoisError", "NXDOMAIN"}

\* C11: neither probe throws past its boundary: whatever the provider call
\* did, the probe hands a probe outcome to the evaluation, no provider error
\* reaches the top-level error, and a provider failure other than
\* no-such-record and name-not-found gives Indeterminate with the failure
\* text in the reason.
C11_ProbesNeverThrow ==
    \A i \in Positions :
        LET t == tasks[i] IN
        /\ t.fault = NoFault => t.results.error = None
        /\ (t.pc # "raised" /\ t.whois_ret # NotCalled) =>
              /\ IsProbeOutcome(t.results, "whois", "available")
              /\ OtherFailure(t.whois_ret) =>
                    /\ t.results.details.whois.available = None
                    /\ Includes(t.results.details.whois.reason, t.whois_ret.text)
        /\ (t.pc # "raised" /\ t.dns_ret # NotCalled) =>
              /\ IsProbeOutcome(t.results, "dns", "resolvable")
              /\ OtherFailure(t.dns_ret) =>
                    /\ t.results.details.dns.resolvable = None
                    /\ Includes(t.results.details.dns.reason, t.dns_ret.text)

C11_Witness ==
    \E i \in Positions :
        /\ tasks[i].pc = "returned" /\ tasks[i].fault = NoFault
        /\ OtherFailure(tasks[i].whois_ret) /\ OtherFailure(tasks[i].dns_ret)
        /\ tasks[i].results.error = None
        /\ Includes(tasks[i].results.details.dns.reason, "The DNS operation timed out")

\* C12: the registration probe reads a returned response in this order: no
\* record gives Positive; a record with a status gives Negative with the
\* active-status reason, the registrar and the creation date in the
\* evidence, also when a registrar is present; else a record with a
\* registrar gives Negative with the registrar reason; any other record
\* gives Indeterminate with an excerpt of at most 500 characters.
C12_RegistrationPriority ==
    \A i \in Positions :
        LET t == tasks[i]
            out == t.whois_ret
            w == t.results.details.whois
        IN (t.pc # "raised" /\ out.kind \in {"None", "record"}) =>
            IF out.kind = "None"
            THEN w = [available |-> True, reason |-> <<"No WHOIS data found">>]
            ELSE IF out.data.status # None
            THEN /\ w.available = False
                 /\ w.reason = <<"Domain has active status">>
                 /\ w.status = out.data.status
                 /\ w.registrar = out.data.registrar
                 /\ w.creation_date = out.data.creation_date
            ELSE IF out.data.registrar # None
            THEN /\ w.available = False
                 /\ w.reason = <<"Domain has registrar">>
                 /\ w.registrar = out.data.registrar
                 /\ "status" \notin DOMAIN w
            ELSE /\ w.available = None
                 /\ w.reason = <<"WHOIS data exists but unclear status">>
                 /\ w.raw_data.len <= 500
                 /\ w.raw_data.len = IF out.data.raw.len < 500 THEN out.data.raw.len ELSE 500
                 /\ w.raw_data.text = out.data.raw.text

C12_Witness ==
    /\ Len(tasks) = 2 /\ Undisturbed(1) /\ Undisturbed(2)
    /\ tasks[1].whois_ret.kind = "record"
    /\ tasks[1].whois_ret.data.status # None
    /\ tasks[1].whois_ret.data.registrar = "Example Registrar, Inc."
    /\ tasks[1].dns_ret.kind = "return" /\ tasks[1].dns_ret.answers # << >>
    /\ tasks[1].results.available = False
    /\ tasks[1].results.details.whois.registrar = "Example Registrar, Inc."
    /\ tasks[2].whois_ret.kind = "record"
    /\ tasks[2].whois_ret.data.status = None /\ tasks[2].whois_ret.data.registrar = None
    /\ tasks[2].whois_ret.data.raw.len > 500
    /\ tasks[2].results.details.whois.raw_data.len = 500

\* C13: the registration provider's no-such-record parsing error gives a
\* Positive registration outcome with the error text in the reason, every
\* other provider failure gives Indeterminate; with a resolver timeout the
\* outcomes are Positive and Indeterminate and the verdict is Unclear.
C13_NoSuchRecord ==
    \A i \in Positions :
        LET t == tasks[i] IN
        (t.pc # "raised" /\ t.whois_ret.kind = "raise") =>
            /\ "whois" \in DOMAIN t.results.details
            /\ IF t.whois_ret.exc = "PywhoisError"
               THEN /\ t.results.whois_available = True
                    /\ t.results.details.whois.available = True
                    /\ Includes(t.results.details.whois.reason, t.whois_ret.text)
               ELSE /\ t.results.whois_available = None
                    /\ t.results.details.whois.available = None
            /\ (Undisturbed(i) /\ t.whois_ret.exc = "PywhoisError" /\ OtherFailure(t.dns_ret)) =>
                  /\ t.results.dns_resolvable = None
                  /\ t.results.available = None
                  /\ t.results.error = None

C13_Witness ==
    /\ SingleReturned /\ Undisturbed(1)
    /\ tasks[1].whois_ret.kind = "raise" /\ tasks[1].whois_ret.exc = "PywhoisError"
    /\ OtherFailure(tasks[1].dns_ret)
    /\ response.result.whois_available = True
    /\ response.result.dns_resolvable = None
    /\ response.status = "UNCLEAR"

\* C14: the resolution probe gives Positive, with the addresses as evidence,
\* exactly when the resolver returns one or more address records, Negative
\* when the resolver reports name-not-found, and Indeterminate with the
\* failure text for every other resolver failure.
C14_ResolutionOutcome ==
    \A i \in Positions :
        LET t == tasks[i]
            out == t.dns_ret
        IN (t.pc # "raised" /\ out # NotCalled) =>
            /\ "dns" \in DOMAIN t.results.details
            /\ LET d == t.results.details.dns IN
               /\ (d.resolvable = True) <=> (out.kind = "return" /\ Len(out.answers) >= 1)
               /\ d.resolvable = True => d.a_records = out.answers
               /\ (out.kind = "raise" /\ out.exc = "NXDOMAIN") =>
                     d.resolvable = False /\ "a_records" \notin DOMAIN d
               /\ OtherFailure(out) =>
                     d.resolvable = None /\ Includes(d.reason, out.text)
               /\ t.results.dns_resolvable = d.resolvable

C14_Witness ==
    /\ Len(tasks) = 2 /\ Undisturbed(1) /\ Undisturbed(2)
    /\ tasks[1].dns_ret.kind = "return" /\ tasks[1].dns_ret.answers # << >>
    /\ tasks[1].results.dns_resolvable = True
    /\ tasks[1].results.details.dns.a_records = <<"93.184.216.34">>
    /\ tasks[2].dns_ret.kind = "raise" /\ tasks[2].dns_ret.exc = "NXDOMAIN"
    /\ tasks[2].results.dns_resolvable = False

BothProbesCompleted(i) == tasks[i].whois_ret # NotCalled /\ tasks[i].dns_ret # NotCalled

\* C15: an evaluation hands back a result without failure only after both
\* probes have completed: there is no early exit, the resolution probe is
\* issued and awaited also when the registration outcome is Negative, and an
\* evaluation whose provider call has not returned has not completed.
C15_NoEarlyExit ==
    \A i \in Positions :
        /\ Undisturbed(i) => BothProbesCompleted(i)
        /\ (tasks[i].pc = "returned" /\ tasks[i].results.error = None) =>
              BothProbesCompleted(i)
        /\ (tasks[i].whois_ret # NotCalled /\ tasks[i].fault = NoFault) =>
              Issued(i, "resolve_dns")
        /\ InFlight(i, "whois") => ~Finished(tasks[i])
        /\ InFlight(i, "resolve_dns") => ~Finished(tasks[i])

C15_Witness ==
    /\ BatchReturned /\ N = 2
    /\ Undisturbed(1)
    /\ tasks[1].results.details.whois.available = False
    /\ tasks[1].dns_ret.kind = "raise" /\ tasks[1].dns_ret.exc = "NXDOMAIN"
    /\ "dns" \in DOMAIN response.results[1].details
    /\ response.results[1].available = False

\* C16: an unexpected failure raised inside the evaluation, before, between
\* or after the probes, gives a result with the failure text in its
\* top-level error and verdict Unclear; in every result a non-empty
\* top-level error implies verdict Unclear.
C16_FailureIsUnclear ==
    /\ \A i \in Positions :
          tasks[i].pc = "returned" =>
              /\ tasks[i].fault = "caught" =>
                    /\ tasks[i].results.error = UnexpectedText
                    /\ tasks[i].results.available = None
              /\ tasks[i].results.error # None => tasks[i].results.available = None
    /\ \A r \in Delivered : r.error # None => r.available = None

C16_Witness ==
    /\ BatchReturned /\ N = 2
    /\ tasks[1].fault = "caught" /\ tasks[1].whois_ret = NotCalled
    /\ tasks[2].fault = "caught" /\ tasks[2].dns_ret # NotCalled
    /\ tasks[2].results.whois_available = False
    /\ response.results[1].error = UnexpectedText
    /\ response.results[2].error = UnexpectedText
    /\ response.results[2].available = None

\* C17: when an evaluation of a batch raises instead of returning, the batch
\* puts at its position a result naming the input domain of that position,
\* with only the error text and verdict Unclear, and keeps the results of
\* the evaluations that returned.
C17_Placeholder ==
    BatchReturned =>
        \A i \in 1..N :
            IF tasks[i].pc = "raised"
            THEN /\ response.results[i] =
                       [domain |-> domains[i], available |-> None, error |-> tasks[i].exc]
                 /\ DOMAIN response.results[i] = {"domain", "available", "error"}
                 /\ response.results[i].error # None
                 /\ response.table[i] = <<domains[i], "UNCLEAR">>
            ELSE /\ response.results[i] = tasks[i].results
                 /\ "details" \in DOMAIN response.results[i]

C17_Witness ==
    /\ BatchReturned /\ N = 2 /\ domains[1] # domains[2]
    /\ tasks[2].pc = "raised" /\ tasks[2].whois_ret # NotCalled
    /\ response.results[2].domain = domains[2]
    /\ Undisturbed(1)
    /\ response.results[1].available = True

\* C18: evaluations are stateless: every evaluation starts from a fresh
\* result structure, its result is the one its own domain and its own two
\* provider responses determine, whatever calls were served before and
\* whatever runs beside it, and between calls the engine holds no pending
\* work.
C18_Stateless ==
    /\ \A i \in Positions :
          /\ tasks[i].domain = domains[i]
          /\ tasks[i].pc \in {"created", "whois"} =>
                tasks[i].results = InitialResults(domains[i])
          /\ Undisturbed(i) =>
                tasks[i].results =
                    EvaluatedAlone(domains[i], tasks[i].whois_ret, tasks[i].dns_ret)
    /\ (SingleReturned /\ Undisturbed(1)) =>
          response.result = EvaluatedAlone(domains[1], tasks[1].whois_ret, tasks[1].dns_ret)
    /\ call = "idle" => queue = << >> /\ running = {}

C18_Witness ==
    /\ ncalls = 2 /\ SingleReturned /\ Undisturbed(1)
    /\ tasks[1].whois_ret.kind = "None"
    /\ tasks[1].dns_ret.kind = "raise" /\ tasks[1].dns_ret.exc = "NXDOMAIN"
    /\ response.result.available = True
    /\ response.result.error = None

\* C19: the configuration of the shared resolver is read-only after
\* initialization: the query timeout is 5 and the total lifetime is 10 in
\* every state, whatever probes run.
C19_ResolverReadOnly ==
    /\ DOMAIN dns_resolver = {"timeout", "lifetime"}
    /\ dns_resolver.timeout = 5
    /\ dns_resolver.lifetime = 10

C19_Witness ==
    /\ Len(tasks) = 2
    /\ tasks[1].dns_ret.kind = "raise" /\ tasks[1].dns_ret.exc = "Exception"
    /\ WorkItem(2, "resolve_dns") \in running
    /\ dns_resolver = [timeout |-> 5, lifetime |-> 10]

(* ------------------------------ fairness ------------------------------ *)
\* the event loop runs every ready coroutine, a free worker takes waiting
\* work, and every provider call that was issued returns or raises
Fairness ==
    /\ WF_vars(\E i \in 1..MaxDomains, f \in Faults : Start(i, f))
    /\ WF_vars(WorkerPick)
    /\ WF_vars(\E i \in 1..MaxDomains, out \in WhoisOutcomes, f \in Faults :
                   WhoisReturn(i, out, f))
    /\ WF_vars(\E i \in 1..MaxDomains, out \in ResolverOutcomes, f \in Faults :
                   DnsReturn(i, out, f))
    /\ WF_vars(CheckDomainReturn)
    /\ WF_vars(CheckMultipleDomainsReturn)

FairSpec == Spec /\ Fairness

\* C20: when every provider call that is issued returns or raises, every
\* call of check_domain ends and every call of check_multiple_domains over
\* N >= 1 domains ends with N results, also with more domains than workers.
Served ==
    /\ call = "idle"
    /\ response # NoResponse
    /\ response.kind = "raise" => response.tool = "check_domain"
    /\ Len(tasks) > 1 => BatchReturned
    /\ BatchReturned => Len(response.results) = N

C20_Terminates == (call # "idle") ~> Served

C20_Witness ==
    /\ BatchReturned /\ N > Workers
    /\ Len(response.results) = N
    /\ \A i \in 1..N : BothProbesCompleted(i)

\* the top-level verdict of a result record agrees with what it records of
\* the two probes and of the failure
Consistent(r) ==
    /\ r.available = True =>
          /\ r.error = None
          /\ r.whois_available = True /\ r.details.whois.available = True
          /\ r.dns_resolvable = False /\ r.details.dns.resolvable = False
    /\ r.available = False =>
          /\ r.error = None
          /\ r.whois_available = False /\ r.details.whois.available = False

\* C21: in every result record returned by a single or batch evaluation, a
\* verdict of Available implies that the top-level error is empty, the
\* recorded registration outcome is Positive and the recorded resolution
\* outcome is Negative; a verdict of NotAvailable implies that the recorded
\* registration outcome is Negative and the top-level error is empty.
C21_VerdictConsistent ==
    /\ \A i \in Positions : tasks[i].pc = "returned" => Consistent(tasks[i].results)
    /\ \A r \in Delivered : HasVerdict(r) /\ Consistent(r)

C21_Witness ==
    /\ BatchReturned /\ N = 2
    /\ response.results[1].available = True
    /\ response.results[1].error = None
    /\ response.results[1].dns_resolvable = False
    /\ response.results[2].available = False
    /\ response.results[2].whois_available = False
    /\ response.results[2].dns_resolvable = True
    /\ ncalls = 2

StatusLabels == {"LIKELY AVAILABLE", "NOT AVAILABLE", "UNCLEAR"}
\* the label is the image of the verdict v
FaithfulStatus(label, v) ==
    /\ label \in StatusLabels
    /\ label = "LIKELY AVAILABLE" <=> v = True
    /\ label = "NOT AVAILABLE" <=> v = False
    /\ label = "UNCLEAR" <=> v \notin {True, False}

\* C22: the status label shown to the caller is a faithful image of the
\* verdict: check_domain and the table of check_multiple_domains show LIKELY
\* AVAILABLE exactly when the verdict is Available, NOT AVAILABLE exactly
\* when it is NotAvailable and UNCLEAR otherwise, and the two tools show the
\* same label for the same result; in check_domain the per-probe lines show
\* Available/Registered/Unclear and Resolving/Not resolving/Error exactly
\* for the Positive/Negative/Indeterminate outcome of the corresponding
\* probe.
C22_FaithfulLabels ==
    /\ SingleReturned =>
          LET r == response.result
              t == tasks[1]
          IN /\ r = t.results
             /\ FaithfulStatus(response.status, r.available)
             /\ response.status = table_status(r)
             /\ response.whois_check \in {"Available", "Registered", "Unclear"}
             /\ response.whois_check = "Available" <=> r.whois_available = True
             /\ response.whois_check = "Registered" <=> r.whois_available = False
             /\ response.whois_check = "Unclear" <=> r.whois_available = None
             /\ response.dns_resolution \in {"Resolving", "Not resolving", "Error"}
             /\ response.dns_resolution = "Resolving" <=> r.dns_resolvable = True
             /\ response.dns_resolution = "Not resolving" <=> r.dns_resolvable = False
             /\ response.dns_resolution = "Error" <=> r.dns_resolvable = None
             /\ t.whois_ret # NotCalled =>
                    r.whois_available = _check_whois(t.whois_ret).available
             /\ t.dns_ret # NotCalled =>
                    r.dns_resolvable = _check_dns_resolution(t.dns_ret).resolvable
    /\ BatchReturned =>
          \A i \in 1..Len(response.results) :
              /\ FaithfulStatus(response.table[i][2], response.results[i].available)
              /\ response.table[i][2] = status(response.results[i])

C22_Witness ==
    /\ SingleReturned
    /\ Undisturbed(1)
    /\ tasks[1].whois_ret.kind = "raise" /\ tasks[1].whois_ret.exc = "PywhoisError"
    /\ tasks[1].dns_ret.kind = "raise" /\ tasks[1].dns_ret.exc = "Exception"
    /\ response.status = "UNCLEAR"
    /\ response.whois_check = "Available"
    /\ response.dns_resolution = "Error"
    /\ Len(tasks) = 1 /\ ncalls = 2

====
